---- MODULE Spec2Model ----
(***************************************************************************)
(* The lab-automation scripts of IPL2_2025_T2 as one state machine.  One   *)
(* script is run per behaviour.  A program position is the source line of  *)
(* the next statement; 0 means the process has ended.  The WaveForms       *)
(* driver and the user (Ctrl+C) are the environment.                       *)
(*                                                                         *)
(* Voltages of PC2.py are integers in units of 3.3/16 V, sample values of  *)
(* the buffered scripts are integers in units of 0.1 V, and a resistance   *)
(* is the exact quotient num/den kept as a record.                         *)
(***************************************************************************)
EXTENDS Integers, Sequences, FiniteSets, TLC

\* ------------------------------------------------------------------ bounds
MaxInterrupts == 1        \* Ctrl+C presses delivered in one run
PC2_N_SAMPLES == 2        \* PC2.py N_SAMPLES (1000 in the source)
V1_N_SAMPLES == 2         \* 250916PC2.py N_SAMPLES (500 in the source)
BUF_LEN == 2              \* samples per acquisition buffer kept by the model
SWEEP_STEPS == 2          \* opamp.py SWEEP_STEPS (101 in the source)
N_TRIALS == 2             \* PC3_test_min.py range(200) of the main block
PC3_N_SAMPLES == 12       \* PC3_test_min.py N_SAMPLES (16384 in the source)
MaxSourceLen == 4         \* longest v_source handed to plot_results on its own

\* ------------------------------------------------------- program constants
PC2_R_REF == 10000
MIN1_R_REF == 1000
MIN1_N_SAMPLES == 8192
OPAMP_SAMPLES_TO_AVERAGE == 1000
MAX_BUFFER_SIZE == 16384
DIODE_BUFFER_SIZE == 50000

\* 3.3/8, 3.3/4, 3.3/2, 3.3 in units of 3.3/16 V
W1_VOLTAGES == <<2, 4, 8, 16>>

\* what FDwfAnalogInStatusSample can deliver in PC2.py (units of 3.3/16 V)
SampleValues == {0, 1, 3, 16}

\* what one buffer sample can be (units of 0.1 V)
BufferValues == {-10, 0, 6}

Buffers == [1..BUF_LEN -> BufferValues]

\* opamp.py averages the buffer of a DC level: its buffers are flat
FlatBuffers == {[k \in 1..BUF_LEN |-> v] : v \in BufferValues}

\* what one sample of the square-wave source can be (units of 0.1 V)
SourceValues == {-12, -6, 0, 6, 12}

\* v_source[total_len//4:total_len//2]: the second quarter of a buffer
Window(b) == SubSeq(b, (Len(b) \div 4) + 1, Len(b) \div 2)

\* PC3_test_min.py uses the second quarter of its buffers only: the samples
\* outside it are kept at 0, those inside are 0 V, 0.6 V or 1.2 V
PC3Buffers ==
    {[k \in 1..PC3_N_SAMPLES |->
         IF k > PC3_N_SAMPLES \div 4 /\ k <= PC3_N_SAMPLES \div 2
         THEN w[k - (PC3_N_SAMPLES \div 4)] ELSE 0] :
       w \in [1..((PC3_N_SAMPLES \div 2) - (PC3_N_SAMPLES \div 4)) -> {0, 6, 12}]}

\* channel 2 of PC3_test_min.py (v_capacitor) only feeds the plot: its
\* window is kept flat
PC3CapBuffers ==
    {[k \in 1..PC3_N_SAMPLES |->
         IF k > PC3_N_SAMPLES \div 4 /\ k <= PC3_N_SAMPLES \div 2 THEN v ELSE 0] :
       v \in {0, 6, 12}}

\* the buffers FDwfAnalogInStatusData can fill for channel ch in script s
BuffersOf(s, ch) ==
    IF s = "opamp.py" THEN FlatBuffers
    ELSE IF s = "PC3_test_min.py" THEN (IF ch = 0 THEN PC3Buffers ELSE PC3CapBuffers)
    ELSE Buffers

\* what FDwfAnalogInStatus can report in sts
StatusValues == {"Armed", "Running", "Done"}

Scripts == {"led_blink.py", "PC2.py", "250916readpin.py", "250916PC2.py",
            "min_1.py", "opamp.py", "PC3_test_min.py", "diode_character_test.py"}

\* ------------------------------------------------------ straight-line code
\* rows are <<line, driver function, argument>> or, for a buffer read,
\* <<line, driver function, count, channel>>; the argument is the start flag,
\* the enable flag, the output value or the sample count, 0 where it plays
\* no role
Straight(rows, exit) ==
    [l \in {rows[k][1] : k \in DOMAIN rows} |->
        LET k == CHOOSE j \in DOMAIN rows : rows[j][1] = l
        IN  [fn |-> rows[k][2], arg |-> rows[k][3],
             ch |-> IF Len(rows[k]) > 3 THEN rows[k][4] ELSE 0,
             nxt |-> IF k < Len(rows) THEN rows[k + 1][1] ELSE exit]]

Code_led_blink_StuckOn ==
    Straight(<< <<19, "FDwfDigitalIOOutputEnableSet", 1>>,
                <<20, "FDwfDigitalIOConfigure", 0>>,
                <<27, "FDwfDigitalIOOutputSet", 1>>,
                <<28, "FDwfDigitalIOConfigure", 0>>,
                <<29, "time.sleep", 0>>,
                <<32, "FDwfDigitalIOOutputSet", 1>>,
                <<33, "FDwfDigitalIOConfigure", 0>>,
                <<34, "time.sleep", 0>> >>, 27)
    @@ Straight(<< <<40, "FDwfDeviceClose", 0>> >>, 0)

Code_led_blink ==
    Straight(<< <<19, "FDwfDigitalIOOutputEnableSet", 1>>,
                <<20, "FDwfDigitalIOConfigure", 0>>,
                <<27, "FDwfDigitalIOOutputSet", 1>>,
                <<28, "FDwfDigitalIOConfigure", 0>>,
                <<29, "time.sleep", 0>>,
                <<32, "FDwfDigitalIOOutputSet", 0>>,
                <<33, "FDwfDigitalIOConfigure", 0>>,
                <<34, "time.sleep", 0>> >>, 27)
    @@ Straight(<< <<40, "FDwfDeviceClose", 0>> >>, 0)

Code_PC2 ==
    Straight(<< <<61, "FDwfAnalogOutNodeEnableSet", 1>>,
                <<62, "FDwfAnalogOutNodeFunctionSet", 0>>,
                <<63, "FDwfAnalogOutNodeOffsetSet", 0>>,
                <<64, "FDwfAnalogOutConfigure", 1>>,
                <<65, "time.sleep", 0>>,
                <<68, "FDwfAnalogInChannelEnableSet", 1>>,
                <<70, "FDwfAnalogInChannelRangeSet", 0>>,
                <<71, "FDwfAnalogInConfigure", 0>>,
                <<72, "time.sleep", 0>> >>, 75)
    @@ Straight(<< <<76, "FDwfAnalogInStatus", 0>>,
                   <<78, "FDwfAnalogInStatusSample", 0>> >>, 81)
    @@ Straight(<< <<96, "FDwfDeviceCloseAll", 0>> >>, 97)

Code_readpin ==
    Straight(<< <<51, "FDwfAnalogOutNodeEnableSet", 1>>,
                <<52, "FDwfAnalogOutNodeFunctionSet", 0>>,
                <<53, "FDwfAnalogOutNodeOffsetSet", 0>>,
                <<54, "FDwfAnalogOutConfigure", 1>>,
                <<55, "time.sleep", 0>>,
                <<59, "FDwfAnalogInChannelEnableSet", 1>>,
                <<60, "FDwfAnalogInChannelRangeSet", 0>>,
                <<61, "FDwfAnalogInConfigure", 0>>,
                <<62, "time.sleep", 0>>,
                <<70, "FDwfAnalogInStatus", 0>>,
                <<74, "FDwfAnalogInStatusSample", 0>>,
                <<79, "time.sleep", 0>> >>, 70)
    @@ Straight(<< <<85, "FDwfAnalogOutConfigure", 0>>,
                   <<86, "FDwfDeviceCloseAll", 0>> >>, 87)

Code_250916PC2 ==
    Straight(<< <<55, "FDwfAnalogOutNodeEnableSet", 1>>,
                <<56, "FDwfAnalogOutNodeFunctionSet", 0>>,
                <<57, "FDwfAnalogOutNodeOffsetSet", 0>>,
                <<58, "FDwfAnalogOutConfigure", 1>>,
                <<59, "time.sleep", 0>>,
                <<63, "FDwfAnalogInChannelEnableSet", 1>>,
                <<66, "FDwfAnalogInChannelRangeSet", 0>>,
                <<67, "FDwfAnalogInConfigure", 0>>,
                <<68, "time.sleep", 0>> >>, 72)
    @@ Straight(<< <<73, "FDwfAnalogInStatus", 0>>,
                   <<76, "FDwfAnalogInStatusSample", 0>> >>, 77)
    @@ Straight(<< <<80, "time.sleep", 0>> >>, 72)
    @@ Straight(<< <<91, "FDwfDeviceCloseAll", 0>> >>, 92)

Code_min_1 ==
    Straight(<< <<65, "FDwfAnalogOutNodeEnableSet", 1>>,
                <<66, "FDwfAnalogOutNodeFunctionSet", 0>>,
                <<67, "FDwfAnalogOutNodeFrequencySet", 0>>,
                <<68, "FDwfAnalogOutNodeAmplitudeSet", 0>>,
                <<69, "FDwfAnalogOutConfigure", 1>>,
                <<70, "time.sleep", 0>>,
                <<75, "FDwfAnalogInChannelEnableSet", 1>>,
                <<76, "FDwfAnalogInChannelRangeSet", 0>>,
                <<78, "FDwfAnalogInChannelEnableSet", 1>>,
                <<79, "FDwfAnalogInChannelRangeSet", 0>>,
                <<82, "FDwfAnalogInTriggerSourceSet", 0>>,
                <<85, "FDwfAnalogInFrequencySet", 0>>,
                <<86, "FDwfAnalogInAcquisitionModeSet", 0>>,
                <<87, "FDwfAnalogInRecordLengthSet", MIN1_N_SAMPLES>>,
                <<88, "time.sleep", 0>>,
                <<92, "FDwfAnalogInConfigure", 1>>,
                <<96, "FDwfAnalogInStatus", 1>> >>, 97)
    @@ Straight(<< <<99, "time.sleep", 0>> >>, 96)
    @@ Straight(<< <<102, "FDwfAnalogInStatusData", MIN1_N_SAMPLES, 0>>,
                   <<103, "FDwfAnalogInStatusData", MIN1_N_SAMPLES, 1>> >>, 107)
    @@ Straight(<< <<131, "FDwfDeviceCloseAll", 0>> >>, 132)

Code_opamp ==
    Straight(<< <<69, "FDwfGetLastErrorMsg", 0>> >>, 71)
    @@ Straight(<< <<77, "FDwfAnalogIOChannelNodeSet", 1>>,
                   <<78, "FDwfAnalogIOChannelNodeSet", 0>>,
                   <<80, "FDwfAnalogIOChannelNodeSet", 1>>,
                   <<81, "FDwfAnalogIOChannelNodeSet", 0>>,
                   <<83, "FDwfAnalogIOEnableSet", 1>>,
                   <<85, "time.sleep", 0>>,
                   <<90, "FDwfAnalogOutNodeEnableSet", 1>>,
                   <<91, "FDwfAnalogOutNodeFunctionSet", 0>>,
                   <<93, "FDwfAnalogOutNodeEnableSet", 0>>,
                   <<98, "FDwfAnalogInChannelEnableSet", 1>>,
                   <<99, "FDwfAnalogInChannelRangeSet", 0>>,
                   <<101, "FDwfAnalogInChannelEnableSet", 1>>,
                   <<102, "FDwfAnalogInChannelRangeSet", 0>>,
                   <<105, "FDwfAnalogInAcquisitionModeSet", 0>>,
                   <<106, "FDwfAnalogInFrequencySet", 0>>,
                   <<107, "FDwfAnalogInRecordLengthSet", 0>>,
                   <<108, "time.sleep", 0>> >>, 114)
    @@ Straight(<< <<116, "FDwfAnalogOutNodeOffsetSet", 0>>,
                   <<117, "FDwfAnalogOutConfigure", 1>>,
                   <<118, "time.sleep", 0>>,
                   <<121, "FDwfAnalogInConfigure", 1>>,
                   <<124, "FDwfAnalogInStatus", 1>> >>, 125)
    @@ Straight(<< <<126, "time.sleep", 0>> >>, 124)
    @@ Straight(<< <<130, "FDwfAnalogInStatusData", OPAMP_SAMPLES_TO_AVERAGE, 0>>,
                   <<135, "FDwfAnalogInStatusData", OPAMP_SAMPLES_TO_AVERAGE, 1>> >>, 141)
    @@ Straight(<< <<151, "FDwfAnalogOutConfigure", 0>>,
                   <<152, "FDwfAnalogIOEnableSet", 0>>,
                   <<153, "FDwfDeviceCloseAll", 0>> >>, 154)

Code_PC3_test_min ==
    Straight(<< <<81, "FDwfAnalogOutNodeEnableSet", 1>>,
                <<82, "FDwfAnalogOutNodeFunctionSet", 0>>,
                <<83, "FDwfAnalogOutNodeFrequencySet", 0>>,
                <<84, "FDwfAnalogOutNodeAmplitudeSet", 0>>,
                <<85, "FDwfAnalogOutNodeOffsetSet", 0>>,
                <<86, "FDwfAnalogOutRepeatSet", 0>>,
                <<87, "FDwfAnalogOutConfigure", 1>>,
                <<88, "time.sleep", 0>>,
                <<91, "FDwfAnalogInChannelEnableSet", 1>>,
                <<92, "FDwfAnalogInChannelEnableSet", 1>>,
                <<93, "FDwfAnalogInChannelRangeSet", 0>>,
                <<94, "FDwfAnalogInChannelRangeSet", 0>>,
                <<95, "FDwfAnalogInFrequencySet", 0>>,
                <<96, "FDwfAnalogInBufferSizeSet", MAX_BUFFER_SIZE>>,
                <<99, "FDwfAnalogInTriggerSourceSet", 0>>,
                <<100, "FDwfAnalogInTriggerChannelSet", 0>>,
                <<101, "FDwfAnalogInTriggerTypeSet", 0>>,
                <<102, "FDwfAnalogInTriggerConditionSet", 0>>,
                <<103, "FDwfAnalogInTriggerLevelSet", 0>>,
                <<107, "FDwfAnalogInConfigure", 1>>,
                <<111, "FDwfAnalogInStatus", 1>> >>, 112)
    @@ Straight(<< <<114, "time.sleep", 0>> >>, 111)
    @@ Straight(<< <<119, "FDwfAnalogInStatusData", MAX_BUFFER_SIZE, 0>>,
                   <<120, "FDwfAnalogInStatusData", MAX_BUFFER_SIZE, 1>> >>, 122)
    @@ Straight(<< <<133, "FDwfDeviceCloseAll", 0>> >>, 135)

Code_diode ==
    Straight(<< <<58, "FDwfAnalogOutNodeEnableSet", 1>>,
                <<59, "FDwfAnalogOutNodeFunctionSet", 0>>,
                <<60, "FDwfAnalogOutNodeFrequencySet", 0>>,
                <<62, "FDwfAnalogOutNodeOffsetSet", 0>>,
                <<63, "FDwfAnalogOutNodeAmplitudeSet", 0>>,
                <<66, "FDwfAnalogInChannelEnableSet", 1>>,
                <<67, "FDwfAnalogInChannelEnableSet", 1>>,
                <<68, "FDwfAnalogInChannelRangeSet", 0>>,
                <<69, "FDwfAnalogInChannelRangeSet", 0>>,
                <<70, "FDwfAnalogInFrequencySet", 0>>,
                <<71, "FDwfAnalogInBufferSizeSet", DIODE_BUFFER_SIZE>>,
                <<74, "FDwfAnalogInTriggerSourceSet", 0>>,
                <<75, "FDwfAnalogInTriggerTypeSet", 0>>,
                <<77, "FDwfAnalogInTriggerConditionSet", 0>>,
                <<78, "FDwfAnalogInTriggerLevelSet", 0>>,
                <<82, "FDwfAnalogOutConfigure", 1>>,
                <<83, "time.sleep", 0>>,
                <<84, "FDwfAnalogInConfigure", 1>>,
                <<87, "FDwfAnalogInStatus", 1>> >>, 88)
    @@ Straight(<< <<90, "time.sleep", 0>> >>, 87)
    @@ Straight(<< <<97, "FDwfAnalogInStatusData", DIODE_BUFFER_SIZE, 0>>,
                   <<98, "FDwfAnalogInStatusData", DIODE_BUFFER_SIZE, 1>> >>, 101)
    @@ Straight(<< <<115, "FDwfAnalogOutConfigure", 0>>,
                   <<116, "FDwfDeviceCloseAll", 0>> >>, 117)

Code ==
    [s \in Scripts |->
        CASE s = "led_blink.py" -> Code_led_blink
          [] s = "PC2.py" -> Code_PC2
          [] s = "250916readpin.py" -> Code_readpin
          [] s = "250916PC2.py" -> Code_250916PC2
          [] s = "min_1.py" -> Code_min_1
          [] s = "opamp.py" -> Code_opamp
          [] s = "PC3_test_min.py" -> Code_PC3_test_min
          [] s = "diode_character_test.py" -> Code_diode]

\* --------------------------------------------------------- control tables
\* open: the FDwfDeviceOpen line; failReport: the "Failed to open device"
\* print; failNext: the statement after that print; body: the statement after
\* a successful open; tryFirst..tryLast: the try body; catches: the classes
\* of its except clause; handler..handlerLast: the except body; fin..finLast:
\* the finally body (0 = none); after: the statement after the try statement
\* (0 = the function ends there and returns None)
Fn ==
    [s \in Scripts |->
        CASE s = "led_blink.py" ->
               [open |-> 14, failReport |-> 15, failNext |-> 16, body |-> 19,
                tryFirst |-> 25, tryLast |-> 34, catches |-> {"KeyboardInterrupt"},
                handler |-> 37, handlerLast |-> 37, fin |-> 0, finLast |-> 0,
                after |-> 40]
          [] s = "PC2.py" ->
               [open |-> 47, failReport |-> 48, failNext |-> 49, body |-> 52,
                tryFirst |-> 56, tryLast |-> 90, catches |-> {"KeyboardInterrupt"},
                handler |-> 93, handlerLast |-> 94, fin |-> 96, finLast |-> 97,
                after |-> 0]
          [] s = "250916readpin.py" ->
               [open |-> 44, failReport |-> 45, failNext |-> 46, body |-> 51,
                tryFirst |-> 50, tryLast |-> 79, catches |-> {"KeyboardInterrupt"},
                handler |-> 82, handlerLast |-> 82, fin |-> 85, finLast |-> 87,
                after |-> 0]
          [] s = "250916PC2.py" ->
               [open |-> 46, failReport |-> 47, failNext |-> 48, body |-> 50,
                tryFirst |-> 54, tryLast |-> 86, catches |-> {"KeyboardInterrupt"},
                handler |-> 89, handlerLast |-> 89, fin |-> 91, finLast |-> 92,
                after |-> 0]
          [] s = "min_1.py" ->
               [open |-> 54, failReport |-> 55, failNext |-> 56, body |-> 59,
                tryFirst |-> 64, tryLast |-> 125, catches |-> {"KeyboardInterrupt"},
                handler |-> 128, handlerLast |-> 129, fin |-> 131, finLast |-> 132,
                after |-> 0]
          [] s = "opamp.py" ->
               [open |-> 66, failReport |-> 67, failNext |-> 69, body |-> 77,
                tryFirst |-> 75, tryLast |-> 145, catches |-> {"Exception"},
                handler |-> 148, handlerLast |-> 148, fin |-> 151, finLast |-> 154,
                after |-> 157]
          [] s = "PC3_test_min.py" ->
               [open |-> 72, failReport |-> 73, failNext |-> 74, body |-> 76,
                tryFirst |-> 81, tryLast |-> 128, catches |-> {"KeyboardInterrupt"},
                handler |-> 131, handlerLast |-> 131, fin |-> 133, finLast |-> 135,
                after |-> 0]
          [] s = "diode_character_test.py" ->
               [open |-> 52, failReport |-> 53, failNext |-> 54, body |-> 58,
                tryFirst |-> 58, tryLast |-> 109, catches |-> {"KeyboardInterrupt"},
                handler |-> 112, handlerLast |-> 113, fin |-> 115, finLast |-> 117,
                after |-> 0]]

PollLoop_Rearm ==
    [s \in {"min_1.py", "opamp.py", "PC3_test_min.py", "diode_character_test.py"} |->
        CASE s = "min_1.py" -> [test |-> 97, done |-> 102, again |-> 92]
          [] s = "opamp.py" -> [test |-> 125, done |-> 130, again |-> 121]
          [] s = "PC3_test_min.py" -> [test |-> 112, done |-> 119, again |-> 107]
          [] s = "diode_character_test.py" -> [test |-> 88, done |-> 97, again |-> 84]]

\* the polling loop of a buffered acquisition: the line of the test
\* "if sts.value == DwfStateDone.value", where break leads, and the sleep of
\* the loop
PollLoop ==
    [s \in {"min_1.py", "opamp.py", "PC3_test_min.py", "diode_character_test.py"} |->
        CASE s = "min_1.py" -> [test |-> 97, done |-> 102, again |-> 99]
          [] s = "opamp.py" -> [test |-> 125, done |-> 130, again |-> 126]
          [] s = "PC3_test_min.py" -> [test |-> 112, done |-> 119, again |-> 114]
          [] s = "diode_character_test.py" -> [test |-> 88, done |-> 97, again |-> 90]]

\* the statement of the main block that follows the call made at callSite
\* (0 = the main block ends with the call)
MainAfter(s, site) ==
    CASE s = "PC2.py" -> 143
      [] s = "min_1.py" -> 165
      [] s = "diode_character_test.py" -> 149
      [] s = "PC3_test_min.py" -> IF site = 165 THEN 167 ELSE 171
      [] OTHER -> 0

\* where a statement sits relative to the try statement of its script
Region(s, l) ==
    LET f == Fn[s]
    IN  IF l >= f.tryFirst /\ l <= f.tryLast THEN "try"
        ELSE IF l >= f.handler /\ l <= f.handlerLast THEN "except"
        ELSE IF f.fin # 0 /\ l >= f.fin /\ l <= f.finLast THEN "finally"
        ELSE "outside"

\* does the except clause of script s catch exception class e
\* (KeyboardInterrupt is a BaseException, not an Exception)
Catches(s, e) ==
    IF e = "KeyboardInterrupt"
    THEN "KeyboardInterrupt" \in Fn[s].catches
    ELSE "Exception" \in Fn[s].catches

None == [kind |-> "None", val |-> <<>>]
Unset == [kind |-> "unset", val |-> <<>>]
NoCall == [fn |-> "none", arg |-> 0, line |-> 0]
NoFit == [from |-> -1, samples |-> <<>>]

\* ---------------------------------------------------------------- state
VARIABLES
    script,         \* the script file that is run
    pc,             \* source line of the next statement, 0 = process ended
    outcome,        \* "running", "exited" (normal end) or "crashed" (traceback)
    exc,            \* the exception in flight, "none" when there is none
    retPending,     \* a return statement is waiting for the finally block
    ret,            \* the value the measurement function returned
    callSite,       \* main-block line of the running call
    console,        \* the messages printed so far
    interrupts,     \* Ctrl+C presses delivered so far
    intAt,          \* the statement the last Ctrl+C arrived at, 0 = none
    hdwfOpen,       \* the device handle is open
    opens,          \* successful FDwfDeviceOpen calls so far
    openFailed,     \* a FDwfDeviceOpen call has returned 0
    w1On,           \* last FDwfAnalogOutConfigure on W1 had start = True
    supplyOn,       \* last FDwfAnalogIOEnableSet had enable = True
    dio,            \* last value written by FDwfDigitalIOOutputSet
    lastCall,       \* the most recent driver call or time.sleep
    sts,            \* status byte of the last poll of this acquisition
    phase,          \* phase of the last acquisition call issued, 0 = none yet
    stimulus,       \* W1 was committed and started since the last buffer read
    v_scope,        \* value of the last FDwfAnalogInStatusSample
    buf1,           \* buffer read from scope channel 1 (index 0)
    buf2,           \* buffer read from scope channel 2 (index 1)
    sp,             \* index of the set-point of the running for loop
    i,              \* index of the sample of the running for loop
    measured,       \* measured_resistances / measured_voltages
    all_results,    \* PC2.py dict, as its items in insertion order
    vin_data,       \* opamp.py vin_data
    vout_data,      \* opamp.py vout_data
    transfer_curve_data, \* opamp.py transfer_curve_data
    tmp,            \* PC3_test_min.py tmp
    v_source,       \* PC3_test_min.py plot_results argument v_source
    fit,            \* the range curve_fit was last called on, NoFit = not called
    data,           \* PC3_test_min.py data of the main block
    trial,          \* PC3_test_min.py loop index of the main block
    plotted         \* a plot function was called with the results

ctlVars == <<script, pc, outcome, exc, retPending, ret, callSite, console, interrupts, intAt>>
devVars == <<hdwfOpen, opens, openFailed, w1On, supplyOn, dio, lastCall, sts, phase, stimulus>>
pyVars == <<v_scope, buf1, buf2, sp, i, measured, all_results, vin_data, vout_data,
            transfer_curve_data, tmp, v_source, fit, data, trial, plotted>>
vars == <<ctlVars, devVars, pyVars>>

Init ==
    /\ script \in Scripts
    /\ pc = Fn[script].open
    /\ outcome = "running"
    /\ exc = "none"
    /\ retPending = FALSE
    /\ ret = Unset
    /\ callSite = IF script = "PC3_test_min.py" THEN 165 ELSE 0
    /\ console = {}
    /\ interrupts = 0
    /\ intAt = 0
    /\ hdwfOpen = FALSE
    /\ opens = 0
    /\ openFailed = FALSE
    /\ w1On = FALSE
    /\ supplyOn = FALSE
    /\ dio = 0
    /\ lastCall = NoCall
    /\ sts = "none"
    /\ phase = 0
    /\ stimulus = FALSE
    /\ v_scope = 0
    /\ buf1 = <<>>
    /\ buf2 = <<>>
    /\ sp = 0
    /\ i = 0
    /\ measured = <<>>
    /\ all_results = <<>>
    /\ vin_data = <<>>
    /\ vout_data = <<>>
    /\ transfer_curve_data = None
    /\ tmp = Unset
    /\ v_source = <<>>
    /\ fit = NoFit
    /\ data = <<>>
    /\ trial = 0
    /\ plotted = FALSE

Running == outcome = "running"
AtCall(fns) == Running /\ pc \in DOMAIN Code[script] /\ Code[script][pc].fn \in fns
Stmt == Code[script][pc]
Issued == [fn |-> Stmt.fn, arg |-> Stmt.arg, line |-> pc]

\* the lines of plot_results
PlotResultsLines == 140..162

\* the statement of measure_rc_circuit that is running while the statement
\* at line l runs: the call at line 128 for a line of plot_results, unless
\* plot_results was called on its own (callSite = 0)
Frame(l) ==
    IF script = "PC3_test_min.py" /\ l \in PlotResultsLines /\ callSite # 0
    THEN 128 ELSE l

\* ------------------------------------------------------ exception transfer
\* raising e at the current statement: to the except body when the statement
\* is in the try body and the clause matches, else to the finally body when
\* the statement is in the try or except body, else out of the function and,
\* no caller catching anything, out of the process
Raise(e) ==
    LET f == Fn[script]
        r == Region(script, Frame(pc))
    IN  IF r = "try" /\ Catches(script, e)
        THEN /\ pc' = f.handler
             /\ exc' = "none"
             /\ UNCHANGED <<outcome, retPending>>
        ELSE IF r \in {"try", "except"} /\ f.fin # 0
        THEN /\ pc' = f.fin
             /\ exc' = e
             /\ retPending' = FALSE
             /\ UNCHANGED outcome
        ELSE /\ pc' = 0
             /\ exc' = e
             /\ outcome' = "crashed"
             /\ UNCHANGED retPending

\* the function hands value v to its caller
Returns(v) ==
    /\ ret' = v
    /\ exc' = "none"
    /\ retPending' = FALSE
    /\ pc' = MainAfter(script, callSite)
    /\ outcome' = IF MainAfter(script, callSite) = 0 THEN "exited" ELSE outcome

\* a return statement with value v: through the finally body when the
\* statement is in the try or except body
ReturnStmt(v) ==
    IF Region(script, pc) \in {"try", "except"} /\ Fn[script].fin # 0
    THEN /\ ret' = v
         /\ retPending' = TRUE
         /\ pc' = Fn[script].fin
         /\ UNCHANGED <<exc, outcome>>
    ELSE Returns(v)

\* ------------------------------------------------------------ driver calls
ConfigFns ==
    {"FDwfAnalogOutNodeEnableSet", "FDwfAnalogOutNodeFunctionSet",
     "FDwfAnalogOutNodeFrequencySet", "FDwfAnalogOutNodeAmplitudeSet",
     "FDwfAnalogOutNodeOffsetSet", "FDwfAnalogOutRepeatSet",
     "FDwfAnalogInChannelEnableSet", "FDwfAnalogInChannelRangeSet",
     "FDwfAnalogInFrequencySet", "FDwfAnalogInAcquisitionModeSet",
     "FDwfAnalogInRecordLengthSet", "FDwfAnalogInBufferSizeSet",
     "FDwfAnalogInTriggerSourceSet", "FDwfAnalogInTriggerChannelSet",
     "FDwfAnalogInTriggerTypeSet", "FDwfAnalogInTriggerConditionSet",
     "FDwfAnalogInTriggerLevelSet", "FDwfAnalogIOChannelNodeSet",
     "FDwfDigitalIOOutputEnableSet", "FDwfDigitalIOConfigure"}

\* the phase of the measurement loop a driver call belongs to: 1 configure
\* output (with the commit that starts W1), 2 configure input, 3 configure
\* trigger, 4 start, 5 poll, 6 read; 0 for every other call
PhaseOf(c) ==
    CASE c.fn \in {"FDwfAnalogOutNodeEnableSet", "FDwfAnalogOutNodeFunctionSet",
                   "FDwfAnalogOutNodeFrequencySet", "FDwfAnalogOutNodeAmplitudeSet",
                   "FDwfAnalogOutNodeOffsetSet", "FDwfAnalogOutRepeatSet"} -> 1
      [] c.fn = "FDwfAnalogOutConfigure" /\ c.arg = 1 -> 1
      [] c.fn \in {"FDwfAnalogInChannelEnableSet", "FDwfAnalogInChannelRangeSet",
                   "FDwfAnalogInFrequencySet", "FDwfAnalogInAcquisitionModeSet",
                   "FDwfAnalogInRecordLengthSet", "FDwfAnalogInBufferSizeSet"} -> 2
      [] c.fn \in {"FDwfAnalogInTriggerSourceSet", "FDwfAnalogInTriggerChannelSet",
                   "FDwfAnalogInTriggerTypeSet", "FDwfAnalogInTriggerConditionSet",
                   "FDwfAnalogInTriggerLevelSet"} -> 3
      [] c.fn = "FDwfAnalogInConfigure" /\ c.arg = 1 -> 4
      [] c.fn = "FDwfAnalogInStatus" -> 5
      [] c.fn = "FDwfAnalogInStatusData" -> 6
      [] OTHER -> 0

\* the phase on record once call c has been issued
PhaseAfter(ph, c) == IF PhaseOf(c) = 0 THEN ph ELSE PhaseOf(c)

\* is the stimulus of the next acquisition in place once call c has been
\* issued: FDwfAnalogOutConfigure with start = True puts it in place, a buffer
\* read uses it up
StimulusAfter(st, c) ==
    IF c.fn = "FDwfAnalogOutConfigure" /\ c.arg = 1 THEN TRUE
    ELSE IF c.fn = "FDwfAnalogInStatusData" THEN FALSE
    ELSE st

\* the statement at pc is done: on to the next one; the module body of
\* led_blink.py ends after its last statement
Advance ==
    /\ pc' = Stmt.nxt
    /\ outcome' = IF Stmt.nxt = 0 THEN "exited" ELSE outcome

\* FDwfDeviceOpen(-1, byref(hdwf)): nonzero on success, 0 on failure
DeviceOpen ==
    /\ Running
    /\ pc = Fn[script].open
    /\ lastCall' = [fn |-> "FDwfDeviceOpen", arg |-> 0, line |-> pc]
    /\ \/ /\ hdwfOpen' = TRUE
          /\ opens' = opens + 1
          /\ phase' = 0
          /\ stimulus' = FALSE
          /\ pc' = Fn[script].body
          /\ UNCHANGED openFailed
       \/ /\ openFailed' = TRUE
          /\ pc' = Fn[script].failReport
          /\ UNCHANGED <<hdwfOpen, opens, phase, stimulus>>
    /\ UNCHANGED <<script, outcome, exc, retPending, ret, callSite, console, interrupts, intAt>>
    /\ UNCHANGED <<w1On, supplyOn, dio, sts>>
    /\ UNCHANGED pyVars

\* print("Failed to open device")
ReportOpenFailure ==
    /\ Running
    /\ pc = Fn[script].failReport
    /\ console' = console \cup {"Failed to open device"}
    /\ pc' = Fn[script].failNext
    /\ UNCHANGED <<script, outcome, exc, retPending, ret, callSite, interrupts, intAt>>
    /\ UNCHANGED <<devVars, pyVars>>

\* the line that ends the run of the function after a failed open
FailReturn(s) == IF s = "opamp.py" THEN 71 ELSE Fn[s].failNext

FailValue_Partial(s) ==
    CASE s = "min_1.py" -> [kind |-> "None3", val |-> <<>>]
      [] s = "diode_character_test.py" -> [kind |-> "None2", val |-> <<>>]
      [] s = "PC2.py" -> [kind |-> "dict", val |-> all_results]
      [] OTHER -> None

\* the value each function returns to signal failure
FailValue(s) ==
    CASE s = "min_1.py" -> [kind |-> "None3", val |-> <<>>]
      [] s = "diode_character_test.py" -> [kind |-> "None2", val |-> <<>>]
      [] OTHER -> None

\* quit() in led_blink.py, return (None ...) in the functions
OpenFailedReturn ==
    /\ Running
    /\ pc = FailReturn(script)
    /\ IF script = "led_blink.py"
       THEN /\ pc' = 0
            /\ outcome' = "exited"
            /\ UNCHANGED <<ret, exc, retPending>>
       ELSE ReturnStmt(FailValue(script))
    /\ UNCHANGED <<script, callSite, console, interrupts, intAt>>
    /\ UNCHANGED <<devVars, pyVars>>

\* a configuration write: node, channel, frequency, buffer, trigger, supply
\* node, digital enable
ConfigWrite ==
    /\ AtCall(ConfigFns)
    /\ lastCall' = Issued
    /\ phase' = PhaseAfter(phase, Issued)
    /\ stimulus' = StimulusAfter(stimulus, Issued)
    /\ Advance
    /\ UNCHANGED <<script, exc, retPending, ret, callSite, console, interrupts, intAt>>
    /\ UNCHANGED <<hdwfOpen, opens, openFailed, w1On, supplyOn, dio, sts>>
    /\ UNCHANGED pyVars

\* FDwfGetLastErrorMsg(szerr) and the two prints around it (opamp.py)
GetLastErrorMsg ==
    /\ AtCall({"FDwfGetLastErrorMsg"})
    /\ lastCall' = Issued
    /\ phase' = PhaseAfter(phase, Issued)
    /\ stimulus' = StimulusAfter(stimulus, Issued)
    /\ Advance
    /\ UNCHANGED <<script, exc, retPending, ret, callSite, console, interrupts, intAt>>
    /\ UNCHANGED <<hdwfOpen, opens, openFailed, w1On, supplyOn, dio, sts>>
    /\ UNCHANGED pyVars

\* FDwfAnalogOutConfigure(hdwf, 0, start): commits the W1 settings and starts
\* (True) or stops (False) the generator
AnalogOutConfigure ==
    /\ AtCall({"FDwfAnalogOutConfigure"})
    /\ lastCall' = Issued
    /\ phase' = PhaseAfter(phase, Issued)
    /\ stimulus' = StimulusAfter(stimulus, Issued)
    /\ w1On' = (Stmt.arg = 1)
    /\ Advance
    /\ UNCHANGED <<script, exc, retPending, ret, callSite, console, interrupts, intAt>>
    /\ UNCHANGED <<hdwfOpen, opens, openFailed, supplyOn, dio, sts>>
    /\ UNCHANGED pyVars

\* FDwfAnalogIOEnableSet(hdwf, enable): master switch of the supply rails
AnalogIOEnableSet ==
    /\ AtCall({"FDwfAnalogIOEnableSet"})
    /\ lastCall' = Issued
    /\ phase' = PhaseAfter(phase, Issued)
    /\ stimulus' = StimulusAfter(stimulus, Issued)
    /\ supplyOn' = (Stmt.arg = 1)
    /\ Advance
    /\ UNCHANGED <<script, exc, retPending, ret, callSite, console, interrupts, intAt>>
    /\ UNCHANGED <<hdwfOpen, opens, openFailed, w1On, dio, sts>>
    /\ UNCHANGED pyVars

\* FDwfDigitalIOOutputSet(hdwf, value)
DigitalIOOutputSet ==
    /\ AtCall({"FDwfDigitalIOOutputSet"})
    /\ lastCall' = Issued
    /\ phase' = PhaseAfter(phase, Issued)
    /\ stimulus' = StimulusAfter(stimulus, Issued)
    /\ dio' = Stmt.arg
    /\ Advance
    /\ UNCHANGED <<script, exc, retPending, ret, callSite, console, interrupts, intAt>>
    /\ UNCHANGED <<hdwfOpen, opens, openFailed, w1On, supplyOn, sts>>
    /\ UNCHANGED pyVars

\* FDwfAnalogInConfigure(hdwf, reconfigure, start): start = True arms an
\* acquisition, which has not been polled yet; start = False only commits
AnalogInConfigure ==
    /\ AtCall({"FDwfAnalogInConfigure"})
    /\ lastCall' = Issued
    /\ phase' = PhaseAfter(phase, Issued)
    /\ stimulus' = StimulusAfter(stimulus, Issued)
    /\ sts' = IF Stmt.arg = 1 THEN "none" ELSE sts
    /\ Advance
    /\ UNCHANGED <<script, exc, retPending, ret, callSite, console, interrupts, intAt>>
    /\ UNCHANGED <<hdwfOpen, opens, openFailed, w1On, supplyOn, dio>>
    /\ UNCHANGED pyVars

\* FDwfAnalogInStatus(hdwf, fReadData, byref(sts)): the device reports its
\* state; the unbuffered scripts pass None and get no state back
AnalogInStatus ==
    /\ AtCall({"FDwfAnalogInStatus"})
    /\ lastCall' = Issued
    /\ phase' = PhaseAfter(phase, Issued)
    /\ stimulus' = StimulusAfter(stimulus, Issued)
    /\ IF Stmt.arg = 1 THEN sts' \in StatusValues ELSE sts' = sts
    /\ Advance
    /\ UNCHANGED <<script, exc, retPending, ret, callSite, console, interrupts, intAt>>
    /\ UNCHANGED <<hdwfOpen, opens, openFailed, w1On, supplyOn, dio>>
    /\ UNCHANGED pyVars

PollExit_AnyProgress(s, st) == st \in {"Running", "Done"}

\* the exit test of the polling loop
PollExit(s, st) == st = "Done"

IfDone_Unconditional ==
    /\ Running
    /\ script \in DOMAIN PollLoop
    /\ pc = PollLoop[script].test
    /\ pc' = PollLoop[script].done
    /\ UNCHANGED <<script, outcome, exc, retPending, ret, callSite, console, interrupts, intAt>>
    /\ UNCHANGED <<devVars, pyVars>>

\* if sts.value == DwfStateDone.value: break, else time.sleep and poll again
IfDone ==
    /\ Running
    /\ script \in DOMAIN PollLoop
    /\ pc = PollLoop[script].test
    /\ pc' = IF PollExit(script, sts) THEN PollLoop[script].done
                                      ELSE PollLoop[script].again
    /\ UNCHANGED <<script, outcome, exc, retPending, ret, callSite, console, interrupts, intAt>>
    /\ UNCHANGED <<devVars, pyVars>>

\* FDwfAnalogInStatusData(hdwf, channel, buffer, count)
AnalogInStatusData ==
    /\ AtCall({"FDwfAnalogInStatusData"})
    /\ lastCall' = Issued
    /\ phase' = PhaseAfter(phase, Issued)
    /\ stimulus' = StimulusAfter(stimulus, Issued)
    /\ \E b \in BuffersOf(script, Stmt.ch) :
         IF Stmt.ch = 0 THEN buf1' = b /\ buf2' = buf2
                        ELSE buf2' = b /\ buf1' = buf1
    /\ Advance
    /\ UNCHANGED <<script, exc, retPending, ret, callSite, console, interrupts, intAt>>
    /\ UNCHANGED <<hdwfOpen, opens, openFailed, w1On, supplyOn, dio, sts>>
    /\ UNCHANGED <<v_scope, sp, i, measured, all_results, vin_data, vout_data,
                   transfer_curve_data, tmp, data, trial, plotted, v_source, fit>>

\* FDwfAnalogInStatusSample(hdwf, 0, byref(v))
AnalogInStatusSample ==
    /\ AtCall({"FDwfAnalogInStatusSample"})
    /\ lastCall' = Issued
    /\ phase' = PhaseAfter(phase, Issued)
    /\ stimulus' = StimulusAfter(stimulus, Issued)
    /\ v_scope' \in SampleValues
    /\ Advance
    /\ UNCHANGED <<script, exc, retPending, ret, callSite, console, interrupts, intAt>>
    /\ UNCHANGED <<hdwfOpen, opens, openFailed, w1On, supplyOn, dio, sts>>
    /\ UNCHANGED <<buf1, buf2, sp, i, measured, all_results, vin_data, vout_data,
                   transfer_curve_data, tmp, data, trial, plotted, v_source, fit>>

\* time.sleep(...)
Sleep ==
    /\ AtCall({"time.sleep"})
    /\ lastCall' = Issued
    /\ phase' = PhaseAfter(phase, Issued)
    /\ stimulus' = StimulusAfter(stimulus, Issued)
    /\ Advance
    /\ UNCHANGED <<script, exc, retPending, ret, callSite, console, interrupts, intAt>>
    /\ UNCHANGED <<hdwfOpen, opens, openFailed, w1On, supplyOn, dio, sts>>
    /\ UNCHANGED pyVars

\* FDwfDeviceClose(hdwf) / FDwfDeviceCloseAll()
DeviceClose ==
    /\ AtCall({"FDwfDeviceClose", "FDwfDeviceCloseAll"})
    /\ lastCall' = Issued
    /\ phase' = PhaseAfter(phase, Issued)
    /\ stimulus' = StimulusAfter(stimulus, Issued)
    /\ hdwfOpen' = FALSE
    /\ Advance
    /\ UNCHANGED <<script, exc, retPending, ret, callSite, console, interrupts, intAt>>
    /\ UNCHANGED <<opens, openFailed, w1On, supplyOn, dio, sts>>
    /\ UNCHANGED pyVars

\* ------------------------------------------------- interrupt, except, finally
\* Ctrl+C: KeyboardInterrupt is raised at the statement about to run
Interrupt ==
    /\ Running
    /\ interrupts < MaxInterrupts
    /\ interrupts' = interrupts + 1
    /\ intAt' = pc
    /\ Raise("KeyboardInterrupt")
    /\ UNCHANGED <<script, ret, callSite, console>>
    /\ UNCHANGED <<devVars, pyVars>>

\* the message of the except body
ExceptReport ==
    /\ Running
    /\ pc = Fn[script].handler
    /\ console' = console \cup {IF script = "opamp.py" THEN "An error occurred"
                                ELSE IF script = "led_blink.py" THEN "Stopped by user"
                                ELSE "Measurement stopped by user."}
    /\ pc' = IF Fn[script].handlerLast > Fn[script].handler THEN Fn[script].handlerLast
             ELSE IF Fn[script].fin # 0 THEN Fn[script].fin
             ELSE Fn[script].after
    /\ UNCHANGED <<script, outcome, exc, retPending, ret, callSite, interrupts, intAt>>
    /\ UNCHANGED <<devVars, pyVars>>

\* the return statement of the except body (PC2.py, min_1.py, diode)
ExceptReturn ==
    /\ Running
    /\ Fn[script].handlerLast > Fn[script].handler
    /\ pc = Fn[script].handlerLast
    /\ ReturnStmt(FailValue(script))
    /\ UNCHANGED <<script, callSite, console, interrupts, intAt>>
    /\ UNCHANGED <<devVars, pyVars>>

\* the closing print of the finally body, after which the exception in
\* flight goes on, or the pending return completes, or the function goes on
\* after the try statement
FinallyEnd ==
    /\ Running
    /\ script # "PC3_test_min.py"
    /\ Fn[script].fin # 0
    /\ pc = Fn[script].finLast
    /\ console' = console \cup {"Device closed."}
    /\ IF exc # "none"
       THEN /\ pc' = 0
            /\ outcome' = "crashed"
            /\ UNCHANGED <<exc, retPending, ret>>
       ELSE IF retPending
       THEN Returns(ret)
       ELSE IF Fn[script].after = 0
       THEN Returns(None)
       ELSE /\ pc' = Fn[script].after
            /\ UNCHANGED <<outcome, exc, retPending, ret>>
    /\ UNCHANGED <<script, callSite, interrupts, intAt>>
    /\ UNCHANGED <<devVars, pyVars>>

\* ------------------------------------------------------------- arithmetic
RECURSIVE SqrtIn(_, _, _)
SqrtIn(n, lo, hi) ==
    IF lo >= hi THEN lo
    ELSE LET mid == (lo + hi + 1) \div 2
         IN  IF mid <= n \div mid THEN SqrtIn(n, mid, hi) ELSE SqrtIn(n, lo, mid - 1)

\* np.sqrt on a non-negative integer, rounded down
Sqrt(n) == SqrtIn(n, 0, n)

RECURSIVE SumOf(_, _)
SumOf(f, k) == IF k = 0 THEN 0 ELSE f[k] + SumOf(f, k - 1)

Square(b) == [k \in DOMAIN b |-> b[k] * b[k]]

\* np.sqrt(np.mean(array**2)) of a buffer in 0.1 V, in mV rounded down
Rms(b) == Sqrt((10000 * SumOf(Square(b), Len(b))) \div Len(b))

\* np.mean(buffer), as the exact quotient
Mean(b) == [num |-> SumOf(b, Len(b)), den |-> Len(b)]

Resistance_Swapped(r_ref, v_in, v_x) == [num |-> r_ref * v_x, den |-> v_x - v_in]

\* R_REF * (v_x / (v_in - v_x)), as the exact quotient
Resistance(r_ref, v_in, v_x) == [num |-> r_ref * v_x, den |-> v_in - v_x]

\* PC2.py: if vin > v_out and v_out > 0
SampleAccepted(vin, v_out) == vin > v_out /\ v_out > 0

RefGuardFails_Strict(v_ref_rms) == v_ref_rms < 0

\* min_1.py: if v_ref_rms <= 0
RefGuardFails(v_ref_rms) == v_ref_rms <= 0

DictSet_SkipEmpty(d, k, v) ==
    IF v = <<>> THEN d
    ELSE IF \E j \in DOMAIN d : d[j][1] = k
    THEN [j \in DOMAIN d |-> IF d[j][1] = k THEN <<k, v>> ELSE d[j]]
    ELSE Append(d, <<k, v>>)

\* d[k] = v on a dict kept as its items in insertion order
DictSet(d, k, v) ==
    IF \E j \in DOMAIN d : d[j][1] = k
    THEN [j \in DOMAIN d |-> IF d[j][1] = k THEN <<k, v>> ELSE d[j]]
    ELSE Append(d, <<k, v>>)

\* bool(value) of a returned value
Truthy(v) ==
    CASE v.kind \in {"unset", "None"} -> FALSE
      [] v.kind = "dict" -> Len(v.val) > 0
      [] OTHER -> TRUE

\* ------------------------------------------------------------------ PC2.py
\* all_results = {}
PC2_all_results ==
    /\ Running /\ script = "PC2.py" /\ pc = 52
    /\ all_results' = <<>>
    /\ pc' = 56
    /\ UNCHANGED <<script, outcome, exc, retPending, ret, callSite, console, interrupts, intAt>>
    /\ UNCHANGED devVars
    /\ UNCHANGED <<v_scope, buf1, buf2, sp, i, measured, vin_data, vout_data,
                   transfer_curve_data, tmp, data, trial, plotted, v_source, fit>>

\* for vin in W1_VOLTAGES:
PC2_for_vin ==
    /\ Running /\ script = "PC2.py" /\ pc = 56
    /\ IF sp < Len(W1_VOLTAGES)
       THEN sp' = sp + 1 /\ pc' = 57
       ELSE sp' = sp /\ pc' = 90
    /\ UNCHANGED <<script, outcome, exc, retPending, ret, callSite, console, interrupts, intAt>>
    /\ UNCHANGED devVars
    /\ UNCHANGED <<v_scope, buf1, buf2, i, measured, all_results, vin_data, vout_data,
                   transfer_curve_data, tmp, data, trial, plotted, v_source, fit>>

\* measured_resistances = []; the sample loop of this set-point starts anew
PC2_measured_resistances ==
    /\ Running /\ script = "PC2.py" /\ pc = 57
    /\ measured' = <<>>
    /\ i' = 0
    /\ pc' = 61
    /\ UNCHANGED <<script, outcome, exc, retPending, ret, callSite, console, interrupts, intAt>>
    /\ UNCHANGED devVars
    /\ UNCHANGED <<v_scope, buf1, buf2, sp, all_results, vin_data, vout_data,
                   transfer_curve_data, tmp, data, trial, plotted, v_source, fit>>

\* for i in range(N_SAMPLES):
PC2_for_i ==
    /\ Running /\ script = "PC2.py" /\ pc = 75
    /\ IF i < PC2_N_SAMPLES
       THEN i' = i + 1 /\ pc' = 76
       ELSE i' = i /\ pc' = 87
    /\ UNCHANGED <<script, outcome, exc, retPending, ret, callSite, console, interrupts, intAt>>
    /\ UNCHANGED devVars
    /\ UNCHANGED <<v_scope, buf1, buf2, sp, measured, all_results, vin_data, vout_data,
                   transfer_curve_data, tmp, data, trial, plotted, v_source, fit>>

\* if vin > v_out and v_out > 0: compute, append and print the resistance;
\* nothing is done and nothing is printed otherwise
PC2_sample ==
    /\ Running /\ script = "PC2.py" /\ pc = 81
    /\ IF SampleAccepted(W1_VOLTAGES[sp], v_scope)
       THEN /\ measured' = Append(measured, Resistance(PC2_R_REF, W1_VOLTAGES[sp], v_scope))
            /\ console' = console \cup {"Sample -> R"}
       ELSE UNCHANGED <<measured, console>>
    /\ pc' = 75
    /\ UNCHANGED <<script, outcome, exc, retPending, ret, callSite, interrupts, intAt>>
    /\ UNCHANGED devVars
    /\ UNCHANGED <<v_scope, buf1, buf2, sp, i, all_results, vin_data, vout_data,
                   transfer_curve_data, tmp, data, trial, plotted, v_source, fit>>

\* all_results[vin] = measured_resistances
PC2_store ==
    /\ Running /\ script = "PC2.py" /\ pc = 87
    /\ all_results' = DictSet(all_results, W1_VOLTAGES[sp], measured)
    /\ pc' = 56
    /\ UNCHANGED <<script, outcome, exc, retPending, ret, callSite, console, interrupts, intAt>>
    /\ UNCHANGED devVars
    /\ UNCHANGED <<v_scope, buf1, buf2, sp, i, measured, vin_data, vout_data,
                   transfer_curve_data, tmp, data, trial, plotted, v_source, fit>>

\* return all_results
PC2_return ==
    /\ Running /\ script = "PC2.py" /\ pc = 90
    /\ ReturnStmt([kind |-> "dict", val |-> all_results])
    /\ UNCHANGED <<script, callSite, console, interrupts, intAt>>
    /\ UNCHANGED <<devVars, pyVars>>

\* if results: plot_histograms_subplot(results)
PC2_main ==
    /\ Running /\ script = "PC2.py" /\ pc = 143
    /\ plotted' = Truthy(ret)
    /\ pc' = 0
    /\ outcome' = "exited"
    /\ UNCHANGED <<script, exc, retPending, ret, callSite, console, interrupts, intAt>>
    /\ UNCHANGED devVars
    /\ UNCHANGED <<v_scope, buf1, buf2, sp, i, measured, all_results, vin_data, vout_data,
                   transfer_curve_data, tmp, data, trial, v_source, fit>>

\* ------------------------------------------------------------ 250916PC2.py
\* measured_voltages = []
V1_measured_voltages ==
    /\ Running /\ script = "250916PC2.py" /\ pc = 50
    /\ measured' = <<>>
    /\ pc' = 55
    /\ UNCHANGED <<script, outcome, exc, retPending, ret, callSite, console, interrupts, intAt>>
    /\ UNCHANGED devVars
    /\ UNCHANGED <<v_scope, buf1, buf2, sp, i, all_results, vin_data, vout_data,
                   transfer_curve_data, tmp, data, trial, plotted, v_source, fit>>

\* for i in range(N_SAMPLES):
V1_for_i ==
    /\ Running /\ script = "250916PC2.py" /\ pc = 72
    /\ IF i < V1_N_SAMPLES
       THEN i' = i + 1 /\ pc' = 73
       ELSE i' = i /\ pc' = 85
    /\ UNCHANGED <<script, outcome, exc, retPending, ret, callSite, console, interrupts, intAt>>
    /\ UNCHANGED devVars
    /\ UNCHANGED <<v_scope, buf1, buf2, sp, measured, all_results, vin_data, vout_data,
                   transfer_curve_data, tmp, data, trial, plotted, v_source, fit>>

\* measured_voltages.append(v_reading.value)
V1_append ==
    /\ Running /\ script = "250916PC2.py" /\ pc = 77
    /\ measured' = Append(measured, v_scope)
    /\ pc' = 80
    /\ UNCHANGED <<script, outcome, exc, retPending, ret, callSite, console, interrupts, intAt>>
    /\ UNCHANGED devVars
    /\ UNCHANGED <<v_scope, buf1, buf2, sp, i, all_results, vin_data, vout_data,
                   transfer_curve_data, tmp, data, trial, plotted, v_source, fit>>

\* if measured_voltages: plot_histogram(...), the last statement of the try body
V1_plot_histogram ==
    /\ Running /\ script = "250916PC2.py" /\ pc = 85
    /\ plotted' = (Len(measured) > 0)
    /\ pc' = Fn[script].fin
    /\ UNCHANGED <<script, outcome, exc, retPending, ret, callSite, console, interrupts, intAt>>
    /\ UNCHANGED devVars
    /\ UNCHANGED <<v_scope, buf1, buf2, sp, i, measured, all_results, vin_data, vout_data,
                   transfer_curve_data, tmp, data, trial, v_source, fit>>

\* ---------------------------------------------------------------- min_1.py
\* vin_samples = (c_double * N_SAMPLES)(); vx_samples = ...: zeroed buffers
MIN1_buffers ==
    /\ Running /\ script = "min_1.py" /\ pc = 59
    /\ buf1' = [k \in 1..BUF_LEN |-> 0]
    /\ buf2' = [k \in 1..BUF_LEN |-> 0]
    /\ pc' = 65
    /\ UNCHANGED <<script, outcome, exc, retPending, ret, callSite, console, interrupts, intAt>>
    /\ UNCHANGED devVars
    /\ UNCHANGED <<v_scope, sp, i, measured, all_results, vin_data, vout_data,
                   transfer_curve_data, tmp, data, trial, plotted, v_source, fit>>

\* vin_rms, vx_rms, v_ref_rms = vin_rms - vx_rms; if v_ref_rms <= 0:
MIN1_guard ==
    /\ Running /\ script = "min_1.py" /\ pc = 107
    /\ pc' = IF RefGuardFails(Rms(buf1) - Rms(buf2)) THEN 120 ELSE 123
    /\ UNCHANGED <<script, outcome, exc, retPending, ret, callSite, console, interrupts, intAt>>
    /\ UNCHANGED <<devVars, pyVars>>

\* print("Error: Voltage across reference resistor is zero or negative. ...")
MIN1_guard_report ==
    /\ Running /\ script = "min_1.py" /\ pc = 120
    /\ console' = console \cup {"Error: Voltage across reference resistor is zero or negative."}
    /\ pc' = 121
    /\ UNCHANGED <<script, outcome, exc, retPending, ret, callSite, interrupts, intAt>>
    /\ UNCHANGED <<devVars, pyVars>>

\* return None, None, None
MIN1_guard_return ==
    /\ Running /\ script = "min_1.py" /\ pc = 121
    /\ ReturnStmt(FailValue(script))
    /\ UNCHANGED <<script, callSite, console, interrupts, intAt>>
    /\ UNCHANGED <<devVars, pyVars>>

\* calculated_resistance = R_REF * (vx_rms / v_ref_rms); return it with the arrays
MIN1_return ==
    /\ Running /\ script = "min_1.py" /\ pc = 123
    /\ ReturnStmt([kind |-> "result3",
                   val |-> <<Resistance(MIN1_R_REF, Rms(buf1), Rms(buf2)), buf1, buf2>>])
    /\ UNCHANGED <<script, callSite, console, interrupts, intAt>>
    /\ UNCHANGED <<devVars, pyVars>>

\* if resistance is not None: print the result, plot_waveforms(...)
MIN1_main ==
    /\ Running /\ script = "min_1.py" /\ pc = 165
    /\ plotted' = (ret.kind # "None3")
    /\ pc' = 0
    /\ outcome' = "exited"
    /\ UNCHANGED <<script, exc, retPending, ret, callSite, console, interrupts, intAt>>
    /\ UNCHANGED devVars
    /\ UNCHANGED <<v_scope, buf1, buf2, sp, i, measured, all_results, vin_data, vout_data,
                   transfer_curve_data, tmp, data, trial, v_source, fit>>

\* ---------------------------------------------------------------- opamp.py
OPAMP_for_setpoint_NoStimulus ==
    /\ Running /\ script = "opamp.py" /\ pc = 114
    /\ IF sp < SWEEP_STEPS
       THEN sp' = sp + 1 /\ pc' = IF sp = 0 THEN 116 ELSE 121
       ELSE sp' = sp /\ pc' = 144
    /\ UNCHANGED <<script, outcome, exc, retPending, ret, callSite, console, interrupts, intAt>>
    /\ UNCHANGED devVars
    /\ UNCHANGED <<v_scope, buf1, buf2, i, measured, all_results, vin_data, vout_data,
                   transfer_curve_data, tmp, data, trial, plotted, v_source, fit>>

\* for v_in_setpoint in vin_setpoints:
OPAMP_for_setpoint ==
    /\ Running /\ script = "opamp.py" /\ pc = 114
    /\ IF sp < SWEEP_STEPS
       THEN sp' = sp + 1 /\ pc' = 116
       ELSE sp' = sp /\ pc' = 144
    /\ UNCHANGED <<script, outcome, exc, retPending, ret, callSite, console, interrupts, intAt>>
    /\ UNCHANGED devVars
    /\ UNCHANGED <<v_scope, buf1, buf2, i, measured, all_results, vin_data, vout_data,
                   transfer_curve_data, tmp, data, trial, plotted, v_source, fit>>

\* v_in_actual = np.mean(buffer_ch1); v_out_actual = np.mean(buffer_ch2);
\* vin_data.append(v_in_actual); vout_data.append(v_out_actual)
OPAMP_append ==
    /\ Running /\ script = "opamp.py" /\ pc = 141
    /\ vin_data' = Append(vin_data, Mean(buf1))
    /\ vout_data' = Append(vout_data, Mean(buf2))
    /\ pc' = 114
    /\ UNCHANGED <<script, outcome, exc, retPending, ret, callSite, console, interrupts, intAt>>
    /\ UNCHANGED devVars
    /\ UNCHANGED <<v_scope, buf1, buf2, sp, i, measured, all_results,
                   transfer_curve_data, tmp, data, trial, plotted, v_source, fit>>

\* transfer_curve_data = (vin_data, vout_data), the last statement of the try body
OPAMP_transfer_curve_data ==
    /\ Running /\ script = "opamp.py" /\ pc = 144
    /\ transfer_curve_data' = [kind |-> "tuple2", val |-> <<vin_data, vout_data>>]
    /\ pc' = Fn[script].fin
    /\ UNCHANGED <<script, outcome, exc, retPending, ret, callSite, console, interrupts, intAt>>
    /\ UNCHANGED devVars
    /\ UNCHANGED <<v_scope, buf1, buf2, sp, i, measured, all_results, vin_data, vout_data,
                   tmp, data, trial, plotted, v_source, fit>>

\* if transfer_curve_data: plot; the function then ends
OPAMP_plot ==
    /\ Running /\ script = "opamp.py" /\ pc = 157
    /\ plotted' = Truthy(transfer_curve_data)
    /\ Returns(None)
    /\ UNCHANGED <<script, callSite, console, interrupts, intAt>>
    /\ UNCHANGED devVars
    /\ UNCHANGED <<v_scope, buf1, buf2, sp, i, measured, all_results, vin_data, vout_data,
                   transfer_curve_data, tmp, data, trial, v_source, fit>>

\* --------------------------------------------------- diode_character_test.py
\* v_led, v_in, i_led = (v_in - v_led) / R_LIMIT; return the two arrays
DIODE_return ==
    /\ Running /\ script = "diode_character_test.py" /\ pc = 101
    /\ ReturnStmt([kind |-> "tuple2", val |-> <<buf1, buf2>>])
    /\ UNCHANGED <<script, callSite, console, interrupts, intAt>>
    /\ UNCHANGED <<devVars, pyVars>>

\* if voltage_data is not None: plot_iv_curve(...)
DIODE_main ==
    /\ Running /\ script = "diode_character_test.py" /\ pc = 149
    /\ plotted' = (ret.kind # "None2")
    /\ pc' = 0
    /\ outcome' = "exited"
    /\ UNCHANGED <<script, exc, retPending, ret, callSite, console, interrupts, intAt>>
    /\ UNCHANGED devVars
    /\ UNCHANGED <<v_scope, buf1, buf2, sp, i, measured, all_results, vin_data, vout_data,
                   transfer_curve_data, tmp, data, trial, v_source, fit>>

\* ---------------------------------------------------------- PC3_test_min.py
\* voltage_samples_ch1 = (c_double * N_SAMPLES)(); voltage_samples_ch2 = ...
PC3_buffers ==
    /\ Running /\ script = "PC3_test_min.py" /\ pc = 76
    /\ buf1' = [k \in 1..PC3_N_SAMPLES |-> 0]
    /\ buf2' = [k \in 1..PC3_N_SAMPLES |-> 0]
    /\ pc' = 81
    /\ UNCHANGED <<script, outcome, exc, retPending, ret, callSite, console, interrupts, intAt>>
    /\ UNCHANGED devVars
    /\ UNCHANGED <<v_scope, sp, i, measured, all_results, vin_data, vout_data,
                   transfer_curve_data, tmp, data, trial, plotted, v_source, fit>>

\* tmp = plot_results(t[n//4:n//2], v_source[n//4:n//2], ...): the call, with
\* the loop variable of plot_results not yet bound (-1)
PC3_plot_results ==
    /\ Running /\ script = "PC3_test_min.py" /\ pc = 122
    /\ v_source' = Window(buf1)
    /\ i' = -1
    /\ fit' = NoFit
    /\ pc' = 142
    /\ UNCHANGED <<script, outcome, exc, retPending, ret, callSite, console, interrupts, intAt>>
    /\ UNCHANGED devVars
    /\ UNCHANGED <<v_scope, buf1, buf2, sp, measured, all_results, vin_data, vout_data,
                   transfer_curve_data, tmp, data, trial, plotted>>

\* for i in range(len(v_source)-1): the next index, or the loop is exhausted
\* and i keeps the last value it had (none when the range was empty)
PR_for ==
    /\ Running /\ script = "PC3_test_min.py" /\ pc = 142
    /\ IF i + 1 < Len(v_source) - 1
       THEN i' = i + 1 /\ pc' = 143
       ELSE i' = i /\ pc' = 146
    /\ UNCHANGED <<script, outcome, exc, retPending, ret, callSite, console, interrupts, intAt>>
    /\ UNCHANGED devVars
    /\ UNCHANGED <<v_scope, buf1, buf2, sp, measured, all_results, vin_data, vout_data,
                   transfer_curve_data, tmp, v_source, fit, data, trial, plotted>>

Exceeds_NoThreshold(a, b) ==
    IF b > 0 THEN a >= b
    ELSE IF b < 0 THEN a <= b
    ELSE a > 0

\* a/b > 1.000005 on np.float64: x/0 is inf for x > 0, -inf for x < 0 and
\* nan for x = 0, and no comparison with nan is true
Exceeds(a, b) ==
    IF b > 0 THEN 1000000 * a > 1000005 * b
    ELSE IF b < 0 THEN 1000000 * a < 1000005 * b
    ELSE a > 0

\* if v_source[i]/v_source[i+1]>1.000005: break
PR_if ==
    /\ Running /\ script = "PC3_test_min.py" /\ pc = 143
    /\ pc' = IF Exceeds(v_source[i + 1], v_source[i + 2]) THEN 146 ELSE 142
    /\ UNCHANGED <<script, outcome, exc, retPending, ret, callSite, console, interrupts, intAt>>
    /\ UNCHANGED <<devVars, pyVars>>

\* the fitted parameters, known by the range they were fitted on
Params(from, src) ==
    [kind |-> "params", val |-> [from |-> from, samples |-> SubSeq(src, from + 1, Len(src))]]

\* params, covariance = curve_fit(exp_decay, t[i:], v_source[i:]); return params
\* UnboundLocalError when the loop never bound i; curve_fit raises
\* RuntimeError when the fit does not converge; the value goes to tmp of
\* measure_rc_circuit, whose try body is then complete
PR_curve_fit ==
    /\ Running /\ script = "PC3_test_min.py" /\ pc = 146
    /\ IF i < 0
       THEN /\ Raise("UnboundLocalError")
            /\ UNCHANGED <<ret, tmp, fit>>
       ELSE /\ fit' = Params(i, v_source).val
            /\ \E converged \in BOOLEAN :
                 IF ~converged
                 THEN /\ Raise("RuntimeError")
                      /\ UNCHANGED <<ret, tmp>>
                 ELSE IF callSite = 0
                 THEN /\ ret' = Params(i, v_source)
                      /\ pc' = 0
                      /\ outcome' = "exited"
                      /\ UNCHANGED <<exc, retPending, tmp>>
                 ELSE /\ tmp' = Params(i, v_source)
                      /\ pc' = Fn[script].fin
                      /\ UNCHANGED <<outcome, exc, retPending, ret>>
    /\ UNCHANGED <<script, callSite, console, interrupts, intAt>>
    /\ UNCHANGED devVars
    /\ UNCHANGED <<v_scope, buf1, buf2, sp, i, measured, all_results, vin_data, vout_data,
                   transfer_curve_data, v_source, data, trial, plotted>>

\* return tmp, inside the finally body: UnboundLocalError when tmp was never
\* assigned, else the value is returned and an exception in flight is dropped
PC3_return_tmp ==
    /\ Running /\ script = "PC3_test_min.py" /\ pc = 135
    /\ IF tmp.kind = "unset"
       THEN /\ Raise("UnboundLocalError")
            /\ UNCHANGED ret
       ELSE Returns(tmp)
    /\ UNCHANGED <<script, callSite, console, interrupts, intAt>>
    /\ UNCHANGED <<devVars, pyVars>>

SubscriptFails_Never(temp) == FALSE

\* temp[1] on the returned value: TypeError when it is None
SubscriptFails(temp) == temp.kind = "None"

\* data.append((temp[1]/R_SENSE_OHMS*10**6)/10-1), lines 167 and 171
PC3_main_append ==
    /\ Running /\ script = "PC3_test_min.py" /\ pc \in {167, 171}
    /\ IF SubscriptFails(ret)
       THEN /\ Raise("TypeError")
            /\ UNCHANGED data
       ELSE /\ data' = Append(data, "RC")
            /\ pc' = 168
            /\ UNCHANGED <<outcome, exc, retPending>>
    /\ UNCHANGED <<script, ret, callSite, console, interrupts, intAt>>
    /\ UNCHANGED devVars
    /\ UNCHANGED <<v_scope, buf1, buf2, sp, i, measured, all_results, vin_data, vout_data,
                   transfer_curve_data, tmp, trial, plotted, v_source, fit>>

\* for i in range(200): temp = measure_rc_circuit() in a new frame; after the
\* loop print(data) and the CSV file, and the main block ends
PC3_main_for ==
    /\ Running /\ script = "PC3_test_min.py" /\ pc = 168
    /\ IF trial < N_TRIALS
       THEN /\ trial' = trial + 1
            /\ callSite' = 170
            /\ pc' = Fn[script].open
            /\ ret' = Unset
            /\ tmp' = Unset
            /\ buf1' = <<>>
            /\ buf2' = <<>>
            /\ v_source' = <<>>
            /\ fit' = NoFit
            /\ i' = 0
            /\ UNCHANGED outcome
       ELSE /\ pc' = 0
            /\ outcome' = "exited"
            /\ UNCHANGED <<trial, callSite, ret, tmp, buf1, buf2, v_source, fit, i>>
    /\ UNCHANGED <<script, exc, retPending, console, interrupts, intAt>>
    /\ UNCHANGED devVars
    /\ UNCHANGED <<v_scope, sp, measured, all_results, vin_data, vout_data,
                   transfer_curve_data, data, plotted>>

\* ------------------------------------------------------------------- system
Next ==
    \/ DeviceOpen
    \/ ReportOpenFailure
    \/ OpenFailedReturn
    \/ ConfigWrite
    \/ GetLastErrorMsg
    \/ AnalogOutConfigure
    \/ AnalogIOEnableSet
    \/ DigitalIOOutputSet
    \/ AnalogInConfigure
    \/ AnalogInStatus
    \/ IfDone
    \/ AnalogInStatusData
    \/ AnalogInStatusSample
    \/ Sleep
    \/ DeviceClose
    \/ Interrupt
    \/ ExceptReport
    \/ ExceptReturn
    \/ FinallyEnd
    \/ PC2_all_results
    \/ PC2_for_vin
    \/ PC2_measured_resistances
    \/ PC2_for_i
    \/ PC2_sample
    \/ PC2_store
    \/ PC2_return
    \/ PC2_main
    \/ V1_measured_voltages
    \/ V1_for_i
    \/ V1_append
    \/ V1_plot_histogram
    \/ MIN1_buffers
    \/ MIN1_guard
    \/ MIN1_guard_report
    \/ MIN1_guard_return
    \/ MIN1_return
    \/ MIN1_main
    \/ OPAMP_for_setpoint
    \/ OPAMP_append
    \/ OPAMP_transfer_curve_data
    \/ OPAMP_plot
    \/ DIODE_return
    \/ DIODE_main
    \/ PC3_buffers
    \/ PC3_plot_results
    \/ PR_for
    \/ PR_if
    \/ PR_curve_fit
    \/ PC3_return_tmp
    \/ PC3_main_append
    \/ PC3_main_for

Spec == Init /\ [][Next]_vars

\* ------------------------------------- the buffered scripts, with fairness
\* one of min_1.py, opamp.py, PC3_test_min.py, diode_character_test.py is run
LiveInit == Init /\ script \in DOMAIN PollLoop

\* the steps of the interpreter in these scripts
LiveProgram ==
    \/ DeviceOpen
    \/ ReportOpenFailure
    \/ OpenFailedReturn
    \/ ConfigWrite
    \/ GetLastErrorMsg
    \/ AnalogOutConfigure
    \/ AnalogIOEnableSet
    \/ AnalogInConfigure
    \/ AnalogInStatus
    \/ IfDone
    \/ AnalogInStatusData
    \/ Sleep
    \/ DeviceClose
    \/ ExceptReport
    \/ ExceptReturn
    \/ FinallyEnd
    \/ MIN1_buffers
    \/ MIN1_guard
    \/ MIN1_guard_report
    \/ MIN1_guard_return
    \/ MIN1_return
    \/ MIN1_main
    \/ OPAMP_for_setpoint
    \/ OPAMP_append
    \/ OPAMP_transfer_curve_data
    \/ OPAMP_plot
    \/ DIODE_return
    \/ DIODE_main
    \/ PC3_buffers
    \/ PC3_plot_results
    \/ PR_for
    \/ PR_if
    \/ PR_curve_fit
    \/ PC3_return_tmp
    \/ PC3_main_append
    \/ PC3_main_for

LiveNext == LiveProgram \/ Interrupt

\* a poll at which the device reports that the acquisition is complete
DeviceReportsDone == AnalogInStatus /\ sts' = "Done"

\* the interpreter keeps executing statements, and a device that is polled
\* again and again reports Done at some poll
LiveSpec ==
    /\ LiveInit
    /\ [][LiveNext]_vars
    /\ WF_vars(LiveProgram)
    /\ SF_vars(DeviceReportsDone)

\* ------------------------------------------------- plot_results on its own
\* the arrays plot_results can be handed as v_source
Sources == UNION {[1..n -> SourceValues] : n \in 0..MaxSourceLen}

\* plot_results(t, v_source, v_cap, current) called directly, outside
\* measure_rc_circuit, with no device involved
PlotInit ==
    /\ script = "PC3_test_min.py"
    /\ pc = 142
    /\ outcome = "running"
    /\ exc = "none"
    /\ retPending = FALSE
    /\ ret = Unset
    /\ callSite = 0
    /\ console = {}
    /\ interrupts = 0
    /\ intAt = 0
    /\ hdwfOpen = FALSE
    /\ opens = 0
    /\ openFailed = FALSE
    /\ w1On = FALSE
    /\ supplyOn = FALSE
    /\ dio = 0
    /\ lastCall = NoCall
    /\ sts = "none"
    /\ phase = 0
    /\ stimulus = FALSE
    /\ v_scope = 0
    /\ buf1 = <<>>
    /\ buf2 = <<>>
    /\ sp = 0
    /\ i = -1
    /\ measured = <<>>
    /\ all_results = <<>>
    /\ vin_data = <<>>
    /\ vout_data = <<>>
    /\ transfer_curve_data = None
    /\ tmp = Unset
    /\ v_source \in Sources
    /\ fit = NoFit
    /\ data = <<>>
    /\ trial = 0
    /\ plotted = FALSE

PlotNext ==
    \/ PR_for
    \/ PR_if
    \/ PR_curve_fit

PlotSpec == PlotInit /\ [][PlotNext]_vars

\* ------------------------------------------------------------- properties
\* the measurement function has handed a value to its caller
Returned == ret.kind # "unset" /\ ~retPending

Failure(v) == v.kind \in {"None", "None2", "None3"}

\* the call arms an acquisition: FDwfAnalogInConfigure with start = True, or
\* the sample poll of the unbuffered scripts
IsArm(c) ==
    \/ c.fn = "FDwfAnalogInConfigure" /\ c.arg = 1
    \/ c.fn = "FDwfAnalogInStatus" /\ c.arg = 0

\* the call writes channel or trigger configuration
IsConfigWrite(c) ==
    \/ c.fn \in ConfigFns
    \/ c.fn = "FDwfAnalogOutConfigure"
    \/ c.fn = "FDwfAnalogInConfigure" /\ c.arg = 0

\* the statement belongs to a status polling loop or to a sampling loop
DuringPolling(s, l) ==
    \/ l \in DOMAIN Code[s] /\ Code[s][l].fn \in {"FDwfAnalogInStatus", "FDwfAnalogInStatusSample"}
    \/ s \in DOMAIN PollLoop /\ l \in {PollLoop[s].test, PollLoop[s].again}

\* C1: once the device was opened and the run has ended, the last command to
\* every stimulus output was a disable (W1 stopped, the supply rails off, the
\* digital output low), and whenever the handle has been closed after an open
\* those disables had been issued before.
C1_SafeIdleThenClosed ==
    /\ (opens > 0 /\ ~Running) => (~w1On /\ ~supplyOn /\ dio = 0)
    /\ (opens > 0 /\ ~hdwfOpen) => (~w1On /\ ~supplyOn /\ dio = 0)

\* C2: once FDwfDeviceOpen has succeeded, the handle is closed whenever the
\* run has ended, however it ended.
C2_HandleReleasedOnExit == (opens > 0 /\ ~Running) => ~hdwfOpen

\* C3: whenever a buffered script is about to call FDwfAnalogInStatusData,
\* the most recent FDwfAnalogInStatus poll of the acquisition returned Done.
C3_ReadOnlyAfterDone == AtCall({"FDwfAnalogInStatusData"}) => sts = "Done"

C3_Witness == lastCall.fn = "FDwfAnalogInStatusData" /\ lastCall.line \in {103, 135, 120, 98}

\* C4: whenever a script is about to arm an acquisition, the step before it
\* was not a configuration write (a settling delay lies in between).
C4_SettleBeforeArm ==
    (Running /\ pc \in DOMAIN Code[script] /\ IsArm(Issued)) => ~IsConfigWrite(lastCall)

\* C5: when Ctrl+C arrives during polling or sampling the run does not end
\* in a crash: the function returns a failure value and the device is closed.
C5_InterruptCaught ==
    (intAt # 0 /\ DuringPolling(script, intAt) /\ interrupts = 1) =>
        /\ outcome # "crashed"
        /\ Returned => Failure(ret)
        /\ ~Running => ~hdwfOpen

\* the keys of a dict in insertion order
Keys(d) == [k \in DOMAIN d |-> d[k][1]]

\* C6: the mapping returned by measure_resistance_for_all_voltages has one
\* entry per set-point of W1_VOLTAGES, in set-point order, whatever samples
\* were dropped by the guard.
C6_FourKeysInOrder ==
    (script = "PC2.py" /\ ret.kind = "dict") => Keys(ret.val) = W1_VOLTAGES

C6_Witness ==
    /\ script = "PC2.py" /\ ret.kind = "dict" /\ outcome = "exited" /\ interrupts = 0
    /\ \E k \in DOMAIN ret.val : ret.val[k][2] = <<>>
    /\ \E k \in DOMAIN ret.val : Len(ret.val[k][2]) = PC2_N_SAMPLES

MIN1_GuardMessage == "Error: Voltage across reference resistor is zero or negative."

C8_ResistanceFormulaPositive ==
    /\ script = "PC2.py" =>
         /\ \A j \in DOMAIN all_results :
              \A k \in DOMAIN all_results[j][2] :
                 LET r == all_results[j][2][k]
                     vin == all_results[j][1]
                 IN  /\ r.num > 0 /\ r.den > 0
                     /\ \E v \in SampleValues :
                          vin > v /\ v > 0 /\ r.num = PC2_R_REF * v /\ r.den = vin - v
         /\ (pc = 75 /\ lastCall.fn = "FDwfAnalogInStatusSample"
               /\ W1_VOLTAGES[sp] > v_scope /\ v_scope > 0)
               => /\ measured # <<>>
                  /\ measured[Len(measured)].num = PC2_R_REF * v_scope
                  /\ measured[Len(measured)].den = W1_VOLTAGES[sp] - v_scope
                  /\ measured[Len(measured)].num > 0
                  /\ measured[Len(measured)].den > 0
    /\ (script = "min_1.py" /\ ret.kind = "result3" /\ Rms(ret.val[3]) > 0) =>
         /\ ret.val[1].num = MIN1_R_REF * Rms(ret.val[3])
         /\ ret.val[1].den = Rms(ret.val[2]) - Rms(ret.val[3])
         /\ ret.val[1].num > 0
         /\ ret.val[1].den > 0

C8_Witness ==
    /\ script = "PC2.py" /\ outcome = "exited" /\ ret.kind = "dict"
    /\ \A j \in DOMAIN ret.val : Len(ret.val[j][2]) > 0

\* C9: when the PC2.py sweep ends with no valid measurement point at all,
\* the function returns a falsy value and the caller plots nothing.
C9_EmptySweepIsFailure ==
    (script = "PC2.py" /\ Returned /\ ret.kind = "dict"
       /\ \A j \in DOMAIN ret.val : ret.val[j][2] = <<>>)
    => (~Truthy(ret) /\ ~plotted)

\* C10: after a failed FDwfDeviceOpen the failure is printed (unless Ctrl+C
\* cut the run short before the print), the script is never again about to
\* open the device or to issue a configuration, arm, poll or read call, and
\* it only walks the way out of the process.
C10_OpenFailureIsFatal ==
    openFailed =>
        /\ pc # Fn[script].open
        /\ pc \in DOMAIN Code[script] => Stmt.fn = "FDwfGetLastErrorMsg"
        /\ (pc # Fn[script].failReport /\ intAt # Fn[script].failReport)
              => "Failed to open device" \in console
        /\ pc \in {0, Fn[script].failReport, Fn[script].failNext, FailReturn(script),
                   MainAfter(script, callSite)}

C10_Witness ==
    /\ script = "PC3_test_min.py" /\ openFailed /\ opens > 0 /\ interrupts = 0
    /\ outcome = "crashed" /\ exc = "TypeError" /\ trial < N_TRIALS

\* the scripts that arm a buffered acquisition and poll it to Done
Buffered == DOMAIN PollLoop

\* the script is about to issue a call of the measurement loop
AtPhaseCall == Running /\ script \in Buffered /\ pc \in DOMAIN Code[script] /\ PhaseOf(Issued) > 0

\* the call about to be issued opens a new acquisition: the buffers of the
\* previous one have been read and the call configures again
NewAcquisition == phase = 6 /\ PhaseOf(Issued) <= 3

Coarse(ph) == IF ph = 0 THEN 0 ELSE IF ph <= 3 THEN 1 ELSE ph - 2

Acquiring(s, l) ==
    \/ DuringPolling(s, l)
    \/ l \in DOMAIN Code[s] /\ Code[s][l].fn = "FDwfAnalogInStatusData"

\* C12: a run that opened the device and has ended, either with no interrupt
\* at all or after one Ctrl+C that arrived while the acquisition was armed,
\* polled or read, leaves the instrument in one and the same state: W1
\* stopped, the supplies off, the digital output low and the handle closed.
C12_InterruptedCleanupAsNormal ==
    (/\ opens > 0 /\ ~Running
     /\ \/ interrupts = 0
        \/ interrupts = 1 /\ intAt # 0 /\ Acquiring(script, intAt))
    => (~w1On /\ ~supplyOn /\ dio = 0 /\ ~hdwfOpen)

\* C13: in one process run FDwfDeviceOpen succeeds at most once (the device
\* is never closed and opened again), and the script is never about to open
\* the device while a handle it opened is still live.
C13_OneOpenPerRun ==
    /\ opens <= 1
    /\ (Running /\ pc = Fn[script].open) => ~hdwfOpen

\* C14: whenever a buffered script is about to set the scope buffer size or
\* to read a buffer, the length it asks for lies between 0 and the 16384
\* samples the device can hold.
C14_BufferLengthWithinDevice ==
    (script \in Buffered /\ AtCall({"FDwfAnalogInBufferSizeSet", "FDwfAnalogInStatusData"}))
    => (0 <= Stmt.arg /\ Stmt.arg <= MAX_BUFFER_SIZE)

\* the ratio a/b is above 1.000005 (a positive a over b = 0 is infinite)
RatioAbove(a, b) ==
    \/ b = 0 /\ a > 0
    \/ b > 0 /\ 1000000 * a > 1000005 * b
    \/ b < 0 /\ 1000000 * a < 1000005 * b

\* the indices i (from 0) with src[i]/src[i+1] > 1.000005
DecayAt(src) == {k \in 0..(Len(src) - 2) : RatioAbove(src[k + 1], src[k + 2])}

\* C15: for a source array of two or more samples in which some index has
\* source[i]/source[i+1] > 1.000005, plot_results runs the fit, the fit range
\* starts at the smallest such index and holds exactly the samples from that
\* index to the end of the array.
C15_FitStartsAtFirstDecay ==
    (Len(v_source) >= 2 /\ DecayAt(v_source) # {}) =>
        /\ ~Running => fit # NoFit
        /\ fit # NoFit =>
              /\ fit.from \in DecayAt(v_source)
              /\ \A k \in DecayAt(v_source) : fit.from <= k
              /\ Len(fit.samples) = Len(v_source) - fit.from
              /\ \A k \in 1..Len(fit.samples) : fit.samples[k] = v_source[fit.from + k]

C15_Witness ==
    /\ callSite = 0 /\ ret.kind = "params" /\ ret.val = fit
    /\ fit.from >= 1
    /\ \E k \in DecayAt(v_source) : k > fit.from

\* C16: for a source array that is flat throughout (no index has
\* source[i]/source[i+1] > 1.000005) or has fewer than two samples,
\* plot_results does not call curve_fit.
C16_NoFitOnFlatSource ==
    (Len(v_source) < 2 \/ DecayAt(v_source) = {}) => fit = NoFit

\* the scripts that run more than one acquisition
Repeating == {"opamp.py", "PC3_test_min.py"}

\* C17: whenever opamp.py or PC3_test_min.py is about to arm an acquisition,
\* W1 has been configured and committed since the buffers were last read, and
\* the acquisition call before the arming was a configuration call, not a
\* poll or a read: there is no step from Done or Reading straight to Armed.
C17_NoRearmWithoutStimulus ==
    (script \in Repeating /\ AtCall({"FDwfAnalogInConfigure"}) /\ Stmt.arg = 1)
    => (stimulus /\ phase \in 1..3)

C17_Witness ==
    /\ AtCall({"FDwfAnalogInConfigure"}) /\ Stmt.arg = 1
    /\ \/ script = "opamp.py" /\ sp >= 2 /\ Len(vin_data) = sp - 1
       \/ script = "PC3_test_min.py" /\ trial >= 1 /\ Len(data) = trial

\* the statements of the status polling loop of script s
PollLines(s) ==
    {l \in DOMAIN Code[s] : Code[s][l].fn = "FDwfAnalogInStatus"}
    \cup {PollLoop[s].test, PollLoop[s].again}

InPollLoop == Running /\ script \in Buffered /\ pc \in PollLines(script)

\* the run has ended with the device closed, and its last call of the
\* measurement loop was a buffer read
ReadClosedEnded == ~Running /\ ~hdwfOpen /\ phase = 6

\* C18: a step takes the script out of its polling loop only when the status
\* just polled is Done, and then to the buffer read, or when Ctrl+C arrives;
\* and with a device that reports Done at some poll, a script that polls
\* gets to the buffer read, closes the device and ends, unless Ctrl+C arrives.
C18_PollLoopExits ==
    /\ [][(InPollLoop /\ ~InPollLoop') =>
             \/ sts = "Done" /\ pc' = PollLoop[script].done
             \/ interrupts' = interrupts + 1]_vars
    /\ InPollLoop ~> (interrupts > 0 \/ ReadClosedEnded)

C18_Witness ==
    /\ script \in Buffered /\ ReadClosedEnded /\ interrupts = 0 /\ outcome = "exited"

\* C19: PC2.py hands back either None or the mapping of all set-points, and
\* None whenever fewer than all set-points were completed, and it plots only
\* a complete mapping; opamp.py sets transfer_curve_data, and plots, only
\* after all set-points, with vin_data and vout_data both of that length.
C19_AllOrNothing ==
    /\ (script = "PC2.py" /\ Returned) =>
          /\ ret = None \/ (ret.kind = "dict" /\ Len(ret.val) = Len(W1_VOLTAGES))
          /\ Len(all_results) < Len(W1_VOLTAGES) => (ret = None /\ ~plotted)
          /\ plotted => ret.kind = "dict"
    /\ script = "opamp.py" =>
          /\ transfer_curve_data # None =>
                /\ transfer_curve_data.val = <<vin_data, vout_data>>
                /\ Len(vin_data) = SWEEP_STEPS
                /\ Len(vout_data) = SWEEP_STEPS
          /\ (Len(vin_data) < SWEEP_STEPS \/ Len(vout_data) < SWEEP_STEPS)
                => (transfer_curve_data = None /\ ~plotted)
          /\ plotted => transfer_curve_data # None

C19_Witness ==
    /\ ~Running /\ interrupts = 1
    /\ \/ /\ script = "PC2.py" /\ ret = None /\ ~plotted
          /\ Len(all_results) >= 1 /\ Len(all_results) < Len(W1_VOLTAGES)
       \/ /\ script = "opamp.py" /\ transfer_curve_data = None /\ ~plotted
          /\ Len(vin_data) >= 1 /\ Len(vin_data) < SWEEP_STEPS

\* the statements of led_blink.py between the ON write and the OFF write
AfterOnBeforeOff == {28, 29, 32}

\* C20: in led_blink.py every write to DIO-0 is the opposite of the value
\* written before, the first being 1; the statement after a write is the
\* configure call and no write follows a write directly; while no Ctrl+C has
\* arrived the script is in its set-up or in the loop; and a run ended by
\* one Ctrl+C that arrived after the ON write and before the OFF write has
\* closed the device with the last value written still 1.
C20_BlinkAlternates ==
    script = "led_blink.py" =>
        /\ AtCall({"FDwfDigitalIOOutputSet"}) =>
              /\ Stmt.arg = 1 - dio
              /\ lastCall.fn # "FDwfDigitalIOOutputSet"
              /\ lastCall.fn = "FDwfDigitalIOConfigure" => Stmt.arg = 1
        /\ (Running /\ lastCall.fn = "FDwfDigitalIOOutputSet" /\ Region(script, pc) = "try")
              => Stmt.fn = "FDwfDigitalIOConfigure"
        /\ (opens > 0 /\ interrupts = 0) =>
              (Running /\ pc \in {19, 20, 27, 28, 29, 32, 33, 34})
        /\ (~Running /\ interrupts = 1 /\ intAt \in AfterOnBeforeOff) =>
              (dio = 1 /\ ~hdwfOpen /\ lastCall.fn = "FDwfDeviceClose")

C20_Witness ==
    /\ script = "led_blink.py" /\ ~Running /\ interrupts = 1
    /\ intAt \in AfterOnBeforeOff /\ dio = 1 /\ ~hdwfOpen
====
